---- MODULE Spec2Model ----
(***************************************************************************)
(* A model of yakirr/tpae: the CVAE training drivers of core.py and        *)
(* core_pytorch.py, their loss functions, and the random patch selection   *)
(* of vis.py.                                                              *)
(*                                                                         *)
(* Spec       runs full_training of core.py and of core_pytorch.py side    *)
(*            by side on the same epoch count, batches, validation losses  *)
(*            and environment fault.                                       *)
(* SpecRecon  draws a batch (x_true, x_pred) and applies the two           *)
(*            reconstruction_loss functions to it.                         *)
(* SpecLatent draws a batch of posterior means and log-variances and       *)
(*            applies kl_loss and CVAE.reparameterize to it.               *)
(* SpecVis    calls the plotting functions of vis.py in any order, with    *)
(*            NumPy's global random generator in any state.                *)
(* SpecEval   runs evaluate of core.py or of core_pytorch.py over a        *)
(*            validation set, batch by batch.                              *)
(* SpecEpoch  runs train_one_epoch of core.py or of core_pytorch.py over   *)
(*            a train loader, statement by statement.                      *)
(***************************************************************************)
EXTENDS Integers, Sequences, FiniteSets, TLC

(* ------------------------------ bounds -------------------------------- *)
MaxEpochs == 3
MaxBatches == 21
MaxLoss == 1
MaxCells == 4
MaxDim == 2
MaxPix == 1
MaxLatent == 2
MaxMean == 1
MaxLogvar == 1
MaxEps == 1
MaxRng == 7
MaxExamples == 3
MaxGrid == 2
MaxSeed == 1
MaxSamples == 3
MaxBatchSize == 2
MaxLoaderLen == 3
MaxInterval == 2

(* ------------------------- program constants -------------------------- *)
\* train_one_epoch(..., log_interval : int=20, ...); full_training never
\* passes log_interval, so every epoch it runs logs with the default.
DefaultLogInterval == 20

\* np.NaN: compares false with everything.
NaN == -1

\* len(train_loader): the lengths at which train_one_epoch changes behaviour,
\* an empty loader, one and two batches, and the lengths around the first
\* batch that per_batch_logging is due on.
LoaderLens ==
    {0, 1, 2} \cup {b \in 1..MaxBatches : b >= DefaultLogInterval}
\* float('inf')
Inf == MaxLoss + 1
\* the values rlosses.mean() can take
LossVals == {NaN} \cup (0..MaxLoss) \cup {Inf}

\* Python's float a < b
FLess(a, b) == a # NaN /\ b # NaN /\ a < b

VARIABLES
    core,       \* the run of core.py's full_training: its locals, the model,
                \* the scheduler, the scratch directory and the calls made
    pytorch,    \* the same for core_pytorch.py's full_training
    n_epochs,   \* argument n_epochs
    n_batches,  \* len(train_loader): batches per epoch
    val_input,  \* val_input[e]: what rlosses.mean() is in epoch e
    fault,      \* the call the environment fails, once it has been met
    turn,       \* which of the two runs steps next
    x_true,     \* a batch: x_true[b][c][p], sample b, channel c, position p
                \* (the two spatial axes flattened); the last channel is the mask
    x_pred,     \* the decoder's output for the batch, of the same shape
    rl,         \* the last reconstruction_loss call: its arguments and result
    mean,       \* the encoder's posterior means: mean[b][d], sample b, latent d
    logvar,     \* the encoder's posterior log-variances, of the same shape
    lat,        \* the last kl_loss or reparameterize call: the noise it
                \* sampled and its result
    rng,        \* the state of np.random's global generator
    vis,        \* the last call of a vis.py function and the patches it chose
    ev,         \* a call of evaluate: its arguments, the model, its locals
                \* and its result
    ep          \* a call of train_one_epoch: its arguments, the optimizer,
                \* its locals and the calls of per_batch_logging it made

trainVars == <<core, pytorch, n_epochs, n_batches, val_input, fault, turn>>
reconVars == <<x_true, x_pred, rl>>
latentVars == <<mean, logvar, lat>>
visVars == <<rng, vis>>
evalVars == <<ev>>
epochVars == <<ep>>
vars == <<trainVars, reconVars, latentVars, visVars, evalVars, epochVars>>
\* what the steps of full_training, of the reconstruction losses, of the
\* latent functions and of the plotting functions leave alone
notTrain == <<reconVars, latentVars, visVars, evalVars, epochVars>>
notRecon == <<trainVars, latentVars, visVars, evalVars, epochVars>>
notLatent == <<trainVars, reconVars, visVars, evalVars, epochVars>>
notVis == <<trainVars, reconVars, latentVars, evalVars, epochVars>>
notEval == <<trainVars, reconVars, latentVars, visVars, epochVars>>
notEpoch == <<trainVars, reconVars, latentVars, visVars, evalVars>>

Ev(op, e, a) == [op |-> op, epoch |-> e, arg |-> a]
NoFault == [epoch |-> 0, pc |-> "none", n |-> 0]
At(s) == [epoch |-> s.epoch, pc |-> s.pc, n |-> s.n]
Exited(s) == s.pc \in {"returned", "raised"}

\* The state of a run when full_training is called.
Called ==
    [pc |-> "start", tempdir |-> "none", epoch |-> 0, n |-> 0,
     lists |-> <<>>, losslog |-> <<>>, losslogs |-> <<>>,
     losslogs_sofar |-> <<>>, rmean |-> NaN, best_val_loss |-> NaN,
     ckpt |-> <<>>, weights |-> 0, lr_steps |-> 0, trace |-> <<>>]

\* Each specification leaves the variables of the others at these values.
NoCall == [fn |-> "none", ignore_empty |-> FALSE, per_sample |-> FALSE, value |-> <<>>]
ReconIdle == x_true = <<>> /\ x_pred = <<>> /\ rl = NoCall
TrainIdle ==
    /\ core = Called /\ pytorch = Called /\ n_epochs = 0 /\ n_batches = 0
    /\ val_input = <<>> /\ fault = NoFault /\ turn = "core"
NoNoise == <<>>
NoLatCall == [fn |-> "none", eps |-> NoNoise, value |-> <<>>]
LatentIdle == mean = <<>> /\ logvar = <<>> /\ lat = NoLatCall
NoPlot == [fn |-> "none", ix |-> <<>>]
VisIdle == rng = 0 /\ vis = NoPlot
NoEval == [fn |-> "none"]
EvalIdle == ev = NoEval
NoEpoch == [fn |-> "none"]
EpochIdle == ep = NoEpoch

\* The two runs alternate; a run that has exited leaves the turn to the other.
Yield(me, other) ==
    turn' = IF Exited(other) THEN turn ELSE IF me = "core" THEN "pytorch" ELSE "core"

\* Both runs see the same validation loss in epoch e: the first to evaluate
\* epoch e draws it, the other reads it.
SameLoss(e, v) ==
    IF e <= Len(val_input)
    THEN v = val_input[e] /\ UNCHANGED val_input
    ELSE val_input' = Append(val_input, v)

\* Both runs see the same fault: the run that is ahead may meet a failing
\* call, and the other then fails at the same call.
MayFail(s, o) == fault = NoFault /\ Len(s.trace) >= Len(o.trace)
MustFail(s) == fault = At(s)

Flatten(ss) ==
    LET RECURSIVE F(_)
        F(k) == IF k = 0 THEN <<>> ELSE F(k - 1) \o ss[k]
    IN F(Len(ss))

(* ===================== core.py: full_training ========================= *)

\* mutant: the directory made with mkdtemp, never removed on an error
CoreUnwind_Leak(s) == [s EXCEPT !.pc = "raised"]

\* with TemporaryDirectory() as tempdir: an exception leaving the block
\* runs the context manager's cleanup before it leaves full_training.
CoreUnwind(s) == [s EXCEPT !.pc = "raised", !.tempdir = "removed"]

\* if n % log_interval == 0 and n > 0
CoreLogDue(k) == k % DefaultLogInterval = 0 /\ k > 0

\* if rlosses.mean() < best_val_loss
CoreImproved(s) == FLess(s.rmean, s.best_val_loss)

\* mutant: the checkpoint written without recording the new best loss
CoreSaveBest_KeepsBest(s) ==
    [s EXCEPT !.ckpt = <<s.weights>>,
              !.trace = Append(@, Ev("torch.save", s.epoch, s.weights))]

\* best_val_loss = rlosses.mean(); torch.save(model.state_dict(), path)
CoreSaveBest(s) ==
    [s EXCEPT !.best_val_loss = s.rmean,
              !.ckpt = <<s.weights>>,
              !.trace = Append(@, Ev("torch.save", s.epoch, s.weights))]

\* mutant: values[0] instead of values[-1]
CoreWithVal_First(frame, v) ==
    [k \in 1..Len(frame) |->
        [epoch |-> frame[k].epoch, n |-> frame[k].n,
         val_rloss |-> IF k = 1 THEN v ELSE NaN]]

\* losslog['val_rloss'] = np.NaN; losslog.val_rloss.values[-1] = rlosses.mean()
CoreWithVal(frame, v) ==
    [k \in 1..Len(frame) |->
        [epoch |-> frame[k].epoch, n |-> frame[k].n,
         val_rloss |-> IF k = Len(frame) THEN v ELSE NaN]]

\* best_val_loss = float('inf'); losslogs = []; with TemporaryDirectory()
CoreEnter ==
    /\ turn = "core" /\ core.pc = "start"
    /\ core' = [core EXCEPT !.best_val_loss = Inf, !.losslogs = <<>>,
                            !.tempdir = "exists", !.pc = "for"]
    /\ Yield("core", pytorch)
    /\ UNCHANGED notTrain
    /\ UNCHANGED <<pytorch, n_epochs, n_batches, val_input, fault>>

\* for epoch in range(1, n_epochs + 1): ... train_one_epoch(...) is entered;
\* after the loop, the final reload.
CoreForEpoch ==
    /\ turn = "core" /\ core.pc = "for"
    /\ core' = IF core.epoch < n_epochs
               THEN [core EXCEPT !.epoch = @ + 1, !.n = 0, !.lists = <<>>,
                        !.trace = Append(@, Ev("train_one_epoch", core.epoch + 1, 0)),
                        !.pc = "train"]
               ELSE [core EXCEPT !.pc = "reload"]
    /\ Yield("core", pytorch)
    /\ UNCHANGED notTrain
    /\ UNCHANGED <<pytorch, n_epochs, n_batches, val_input, fault>>

\* One mini-batch of train_one_epoch: forward, backward, optimizer.step(),
\* the three appends, then the log line when it is due.
CoreTrainBatch ==
    /\ turn = "core" /\ core.pc = "train" /\ core.n < n_batches
    /\ ~MustFail(core)
    /\ LET stepped == Append(core.trace, Ev("optimizer.step", core.epoch, core.n))
           logged == IF CoreLogDue(core.n)
                     THEN Append(stepped, Ev("per_batch_logging", core.epoch, core.n))
                     ELSE stepped
       IN core' = [core EXCEPT !.weights = @ + 1,
                       !.lists = Append(@, [epoch |-> core.epoch, n |-> core.n]),
                       !.trace = logged,
                       !.n = @ + 1]
    /\ Yield("core", pytorch)
    /\ UNCHANGED notTrain
    /\ UNCHANGED <<pytorch, n_epochs, n_batches, val_input, fault>>

\* return pd.DataFrame({...}): one row per batch
CoreTrainReturn ==
    /\ turn = "core" /\ core.pc = "train" /\ core.n = n_batches
    /\ core' = [core EXCEPT !.losslog = core.lists, !.lists = <<>>, !.pc = "evaluate"]
    /\ Yield("core", pytorch)
    /\ UNCHANGED notTrain
    /\ UNCHANGED <<pytorch, n_epochs, n_batches, val_input, fault>>

\* mutant: the scheduler step forgotten after the evaluation
CoreEvaluate_SkipsScheduler ==
    /\ turn = "core" /\ core.pc = "evaluate"
    /\ ~MustFail(core)
    /\ \E v \in LossVals :
        /\ SameLoss(core.epoch, v)
        /\ core' = [core EXCEPT !.rmean = v,
                        !.trace = Append(@, Ev("evaluate", core.epoch, core.weights)),
                        !.pc = "writeval"]
    /\ Yield("core", pytorch)
    /\ UNCHANGED notTrain
    /\ UNCHANGED <<pytorch, n_epochs, n_batches, fault>>

\* rlosses, _ = evaluate(model, val_dataset, detailed=True)
CoreEvaluate ==
    /\ turn = "core" /\ core.pc = "evaluate"
    /\ ~MustFail(core)
    /\ \E v \in LossVals :
        /\ SameLoss(core.epoch, v)
        /\ core' = [core EXCEPT !.rmean = v,
                        !.trace = Append(@, Ev("evaluate", core.epoch, core.weights)),
                        !.pc = "sched"]
    /\ Yield("core", pytorch)
    /\ UNCHANGED notTrain
    /\ UNCHANGED <<pytorch, n_epochs, n_batches, fault>>

\* scheduler.step()
CoreSchedulerStep ==
    /\ turn = "core" /\ core.pc = "sched"
    /\ ~MustFail(core)
    /\ core' = [core EXCEPT !.lr_steps = @ + 1,
                    !.trace = Append(@, Ev("scheduler.step", core.epoch, core.lr_steps + 1)),
                    !.pc = "writeval"]
    /\ Yield("core", pytorch)
    /\ UNCHANGED notTrain
    /\ UNCHANGED <<pytorch, n_epochs, n_batches, val_input, fault>>

\* losslog['val_rloss'] = np.NaN; losslog.val_rloss.values[-1] = rlosses.mean()
\* (IndexError on a frame without rows); losslogs.append(losslog);
\* losslogs_sofar = pd.concat(losslogs, axis=0).reset_index(drop=True)
CoreWriteVal ==
    /\ turn = "core" /\ core.pc = "writeval"
    /\ core' = IF core.losslog = <<>>
               THEN CoreUnwind(core)
               ELSE LET frame == CoreWithVal(core.losslog, core.rmean)
                        all == Append(core.losslogs, frame)
                    IN [core EXCEPT !.losslog = frame, !.losslogs = all,
                            !.losslogs_sofar = Flatten(all),
                            !.trace = Append(@, Ev("write_val", core.epoch, Len(frame))),
                            !.pc = "callback"]
    /\ Yield("core", pytorch)
    /\ UNCHANGED notTrain
    /\ UNCHANGED <<pytorch, n_epochs, n_batches, val_input, fault>>

\* per_epoch_logging(model, epoch, epoch_start_time, rlosses, losslogs_sofar)
CorePerEpochLogging ==
    /\ turn = "core" /\ core.pc = "callback"
    /\ ~MustFail(core)
    /\ core' = [core EXCEPT
                    !.trace = Append(@, Ev("per_epoch_logging", core.epoch,
                                           Len(core.losslogs_sofar))),
                    !.pc = "check"]
    /\ Yield("core", pytorch)
    /\ UNCHANGED notTrain
    /\ UNCHANGED <<pytorch, n_epochs, n_batches, val_input, fault>>

\* if rlosses.mean() < best_val_loss: best_val_loss = rlosses.mean();
\*     torch.save(model.state_dict(), best_model_params_path)
CoreCheckpoint ==
    /\ turn = "core" /\ core.pc = "check"
    /\ ~MustFail(core)
    /\ core' = IF CoreImproved(core)
               THEN [CoreSaveBest(core) EXCEPT !.pc = "for"]
               ELSE [core EXCEPT !.pc = "for"]
    /\ Yield("core", pytorch)
    /\ UNCHANGED notTrain
    /\ UNCHANGED <<pytorch, n_epochs, n_batches, val_input, fault>>

\* model.load_state_dict(torch.load(best_model_params_path)):
\* FileNotFoundError when no epoch saved a checkpoint.
CoreReload ==
    /\ turn = "core" /\ core.pc = "reload"
    /\ ~MustFail(core)
    /\ core' = IF core.ckpt = <<>>
               THEN CoreUnwind(core)
               ELSE [core EXCEPT !.weights = core.ckpt[1],
                        !.trace = Append(@, Ev("load_state_dict", core.epoch, core.ckpt[1])),
                        !.pc = "exit"]
    /\ Yield("core", pytorch)
    /\ UNCHANGED notTrain
    /\ UNCHANGED <<pytorch, n_epochs, n_batches, val_input, fault>>

\* the with block ends (the directory is removed);
\* return model, losslogs_sofar (unbound when no epoch ran)
CoreReturn ==
    /\ turn = "core" /\ core.pc = "exit"
    /\ core' = [core EXCEPT !.tempdir = "removed",
                    !.pc = IF core.losslogs = <<>> THEN "raised" ELSE "returned"]
    /\ Yield("core", pytorch)
    /\ UNCHANGED notTrain
    /\ UNCHANGED <<pytorch, n_epochs, n_batches, val_input, fault>>

\* An error raised by training, evaluation, the scheduler step, the
\* per-epoch callback, the checkpoint save or the final reload.
CoreCallRaises ==
    /\ turn = "core"
    /\ \/ core.pc = "train" /\ core.n < n_batches
       \/ core.pc \in {"evaluate", "sched", "callback", "reload"}
       \/ core.pc = "check" /\ CoreImproved(core)
    /\ MayFail(core, pytorch) \/ MustFail(core)
    /\ fault' = At(core)
    /\ core' = CoreUnwind(core)
    /\ Yield("core", pytorch)
    /\ UNCHANGED notTrain
    /\ UNCHANGED <<pytorch, n_epochs, n_batches, val_input>>

CoreNext ==
    \/ CoreEnter
    \/ CoreForEpoch
    \/ CoreTrainBatch
    \/ CoreTrainReturn
    \/ CoreEvaluate
    \/ CoreSchedulerStep
    \/ CoreWriteVal
    \/ CorePerEpochLogging
    \/ CoreCheckpoint
    \/ CoreReload
    \/ CoreReturn
    \/ CoreCallRaises

(* ===================== core_pytorch.py: full_training ========================= *)

\* with TemporaryDirectory() as tempdir: an exception leaving the block
\* runs the context manager's cleanup before it leaves full_training.
PtUnwind(s) == [s EXCEPT !.pc = "raised", !.tempdir = "removed"]

\* mutant: the test n > 0 dropped
PtLogDue_FromZero(k) == k % DefaultLogInterval = 0

\* if n % log_interval == 0 and n > 0
PtLogDue(k) == k % DefaultLogInterval = 0 /\ k > 0

\* if rlosses.mean() < best_val_loss
PtImproved(s) == FLess(s.rmean, s.best_val_loss)

\* best_val_loss = rlosses.mean(); torch.save(model.state_dict(), path)
PtSaveBest(s) ==
    [s EXCEPT !.best_val_loss = s.rmean,
              !.ckpt = <<s.weights>>,
              !.trace = Append(@, Ev("torch.save", s.epoch, s.weights))]

\* losslog['val_rloss'] = np.NaN; losslog.val_rloss.values[-1] = rlosses.mean()
PtWithVal(frame, v) ==
    [k \in 1..Len(frame) |->
        [epoch |-> frame[k].epoch, n |-> frame[k].n,
         val_rloss |-> IF k = Len(frame) THEN v ELSE NaN]]

\* best_val_loss = float('inf'); losslogs = []; with TemporaryDirectory()
PtEnter ==
    /\ turn = "pytorch" /\ pytorch.pc = "start"
    /\ pytorch' = [pytorch EXCEPT !.best_val_loss = Inf, !.losslogs = <<>>,
                            !.tempdir = "exists", !.pc = "for"]
    /\ Yield("pytorch", core)
    /\ UNCHANGED notTrain
    /\ UNCHANGED <<core, n_epochs, n_batches, val_input, fault>>

\* for epoch in range(1, n_epochs + 1): ... train_one_epoch(...) is entered;
\* after the loop, the final reload.
PtForEpoch ==
    /\ turn = "pytorch" /\ pytorch.pc = "for"
    /\ pytorch' = IF pytorch.epoch < n_epochs
               THEN [pytorch EXCEPT !.epoch = @ + 1, !.n = 0, !.lists = <<>>,
                        !.trace = Append(@, Ev("train_one_epoch", pytorch.epoch + 1, 0)),
                        !.pc = "train"]
               ELSE [pytorch EXCEPT !.pc = "reload"]
    /\ Yield("pytorch", core)
    /\ UNCHANGED notTrain
    /\ UNCHANGED <<core, n_epochs, n_batches, val_input, fault>>

\* One mini-batch of train_one_epoch: batch.permute(0, 3, 1, 2), forward, backward, optimizer.step(),
\* the three appends, then the log line when it is due.
PtTrainBatch ==
    /\ turn = "pytorch" /\ pytorch.pc = "train" /\ pytorch.n < n_batches
    /\ ~MustFail(pytorch)
    /\ LET stepped == Append(pytorch.trace, Ev("optimizer.step", pytorch.epoch, pytorch.n))
           logged == IF PtLogDue(pytorch.n)
                     THEN Append(stepped, Ev("per_batch_logging", pytorch.epoch, pytorch.n))
                     ELSE stepped
       IN pytorch' = [pytorch EXCEPT !.weights = @ + 1,
                       !.lists = Append(@, [epoch |-> pytorch.epoch, n |-> pytorch.n]),
                       !.trace = logged,
                       !.n = @ + 1]
    /\ Yield("pytorch", core)
    /\ UNCHANGED notTrain
    /\ UNCHANGED <<core, n_epochs, n_batches, val_input, fault>>

\* return pd.DataFrame({...}): one row per batch
PtTrainReturn ==
    /\ turn = "pytorch" /\ pytorch.pc = "train" /\ pytorch.n = n_batches
    /\ pytorch' = [pytorch EXCEPT !.losslog = pytorch.lists, !.lists = <<>>, !.pc = "evaluate"]
    /\ Yield("pytorch", core)
    /\ UNCHANGED notTrain
    /\ UNCHANGED <<core, n_epochs, n_batches, val_input, fault>>

\* rlosses, _ = evaluate(model, val_dataset, detailed=True)
PtEvaluate ==
    /\ turn = "pytorch" /\ pytorch.pc = "evaluate"
    /\ ~MustFail(pytorch)
    /\ \E v \in LossVals :
        /\ SameLoss(pytorch.epoch, v)
        /\ pytorch' = [pytorch EXCEPT !.rmean = v,
                        !.trace = Append(@, Ev("evaluate", pytorch.epoch, pytorch.weights)),
                        !.pc = "sched"]
    /\ Yield("pytorch", core)
    /\ UNCHANGED notTrain
    /\ UNCHANGED <<core, n_epochs, n_batches, fault>>

\* scheduler.step()
PtSchedulerStep ==
    /\ turn = "pytorch" /\ pytorch.pc = "sched"
    /\ ~MustFail(pytorch)
    /\ pytorch' = [pytorch EXCEPT !.lr_steps = @ + 1,
                    !.trace = Append(@, Ev("scheduler.step", pytorch.epoch, pytorch.lr_steps + 1)),
                    !.pc = "writeval"]
    /\ Yield("pytorch", core)
    /\ UNCHANGED notTrain
    /\ UNCHANGED <<core, n_epochs, n_batches, val_input, fault>>

\* losslog['val_rloss'] = np.NaN; losslog.val_rloss.values[-1] = rlosses.mean()
\* (IndexError on a frame without rows); losslogs.append(losslog);
\* losslogs_sofar = pd.concat(losslogs, axis=0).reset_index(drop=True)
PtWriteVal ==
    /\ turn = "pytorch" /\ pytorch.pc = "writeval"
    /\ pytorch' = IF pytorch.losslog = <<>>
               THEN PtUnwind(pytorch)
               ELSE LET frame == PtWithVal(pytorch.losslog, pytorch.rmean)
                        all == Append(pytorch.losslogs, frame)
                    IN [pytorch EXCEPT !.losslog = frame, !.losslogs = all,
                            !.losslogs_sofar = Flatten(all),
                            !.trace = Append(@, Ev("write_val", pytorch.epoch, Len(frame))),
                            !.pc = "callback"]
    /\ Yield("pytorch", core)
    /\ UNCHANGED notTrain
    /\ UNCHANGED <<core, n_epochs, n_batches, val_input, fault>>

\* per_epoch_logging(model, epoch, epoch_start_time, rlosses, losslogs_sofar)
PtPerEpochLogging ==
    /\ turn = "pytorch" /\ pytorch.pc = "callback"
    /\ ~MustFail(pytorch)
    /\ pytorch' = [pytorch EXCEPT
                    !.trace = Append(@, Ev("per_epoch_logging", pytorch.epoch,
                                           Len(pytorch.losslogs_sofar))),
                    !.pc = "check"]
    /\ Yield("pytorch", core)
    /\ UNCHANGED notTrain
    /\ UNCHANGED <<core, n_epochs, n_batches, val_input, fault>>

\* if rlosses.mean() < best_val_loss: best_val_loss = rlosses.mean();
\*     torch.save(model.state_dict(), best_model_params_path)
PtCheckpoint ==
    /\ turn = "pytorch" /\ pytorch.pc = "check"
    /\ ~MustFail(pytorch)
    /\ pytorch' = IF PtImproved(pytorch)
               THEN [PtSaveBest(pytorch) EXCEPT !.pc = "for"]
               ELSE [pytorch EXCEPT !.pc = "for"]
    /\ Yield("pytorch", core)
    /\ UNCHANGED notTrain
    /\ UNCHANGED <<core, n_epochs, n_batches, val_input, fault>>

\* model.load_state_dict(torch.load(best_model_params_path)):
\* FileNotFoundError when no epoch saved a checkpoint.
PtReload ==
    /\ turn = "pytorch" /\ pytorch.pc = "reload"
    /\ ~MustFail(pytorch)
    /\ pytorch' = IF pytorch.ckpt = <<>>
               THEN PtUnwind(pytorch)
               ELSE [pytorch EXCEPT !.weights = pytorch.ckpt[1],
                        !.trace = Append(@, Ev("load_state_dict", pytorch.epoch, pytorch.ckpt[1])),
                        !.pc = "exit"]
    /\ Yield("pytorch", core)
    /\ UNCHANGED notTrain
    /\ UNCHANGED <<core, n_epochs, n_batches, val_input, fault>>

\* the with block ends (the directory is removed);
\* return model, losslogs_sofar (unbound when no epoch ran)
PtReturn ==
    /\ turn = "pytorch" /\ pytorch.pc = "exit"
    /\ pytorch' = [pytorch EXCEPT !.tempdir = "removed",
                    !.pc = IF pytorch.losslogs = <<>> THEN "raised" ELSE "returned"]
    /\ Yield("pytorch", core)
    /\ UNCHANGED notTrain
    /\ UNCHANGED <<core, n_epochs, n_batches, val_input, fault>>

\* An error raised by training, evaluation, the scheduler step, the
\* per-epoch callback, the checkpoint save or the final reload.
PtCallRaises ==
    /\ turn = "pytorch"
    /\ \/ pytorch.pc = "train" /\ pytorch.n < n_batches
       \/ pytorch.pc \in {"evaluate", "sched", "callback", "reload"}
       \/ pytorch.pc = "check" /\ PtImproved(pytorch)
    /\ MayFail(pytorch, core) \/ MustFail(pytorch)
    /\ fault' = At(pytorch)
    /\ pytorch' = PtUnwind(pytorch)
    /\ Yield("pytorch", core)
    /\ UNCHANGED notTrain
    /\ UNCHANGED <<core, n_epochs, n_batches, val_input>>

PtNext ==
    \/ PtEnter
    \/ PtForEpoch
    \/ PtTrainBatch
    \/ PtTrainReturn
    \/ PtEvaluate
    \/ PtSchedulerStep
    \/ PtWriteVal
    \/ PtPerEpochLogging
    \/ PtCheckpoint
    \/ PtReload
    \/ PtReturn
    \/ PtCallRaises

(* ======================= float arithmetic ============================= *)

RECURSIVE GCD(_, _)
GCD(a, b) == IF b = 0 THEN a ELSE GCD(b, a % b)
Abs(a) == IF a < 0 THEN 0 - a ELSE a

\* A float is held exactly, as a fraction in lowest terms; x/0 is inf and
\* 0/0 is nan, as torch's division gives them.
NaNf == [num |-> 0, den |-> 0]
Inff == [num |-> 1, den |-> 0]
Frac(a, b) ==
    IF b = 0 THEN (IF a = 0 THEN NaNf ELSE Inff)
    ELSE LET g == GCD(Abs(a), b) IN [num |-> a \div g, den |-> b \div g]
FAdd(x, y) ==
    IF x = NaNf \/ y = NaNf THEN NaNf
    ELSE IF x = Inff \/ y = Inff THEN Inff
    ELSE Frac(x.num * y.den + y.num * x.den, x.den * y.den)
FDivInt(x, k) == IF x.den = 0 THEN x ELSE Frac(x.num, x.den * k)

RECURSIVE SumSeq(_)
SumSeq(s) == IF s = <<>> THEN 0 ELSE Head(s) + SumSeq(Tail(s))
RECURSIVE FSumSeq(_)
FSumSeq(s) == IF s = <<>> THEN Frac(0, 1) ELSE FAdd(Head(s), FSumSeq(Tail(s)))
\* torch.mean over the batch axis
FMean(s) == FDivInt(FSumSeq(s), Len(s))

\* the shape of a batch tensor
NB(x) == Len(x)
NC(x) == Len(x[1])
NP(x) == Len(x[1][1])

(* =================== core.py: reconstruction_loss ===================== *)

\* mask = x_true[:,-1,:,:].to(torch.bool)   (ignore_empty)
\* mask = torch.ones(..., dtype=torch.bool)  (otherwise)
CoreMask(xt, ignore_empty) ==
    [b \in 1..NB(xt) |-> [p \in 1..NP(xt) |->
        IF ignore_empty THEN xt[b][NC(xt)][p] # 0 ELSE TRUE]]

\* mutant: the prediction is not masked
CoreSqErr_PredUnmasked(m, t, p) == (p - (IF m THEN t ELSE 0)) * (p - (IF m THEN t ELSE 0))

\* (x_pred*mask - x_true*mask)**2 at one element
CoreSqErr(m, t, p) ==
    LET pm == IF m THEN p ELSE 0
        tm == IF m THEN t ELSE 0
    IN (pm - tm) * (pm - tm)

\* mutant: the division by the mask count made only with ignore_empty
CorePerSample_DivOnlyMasked(xt, xp, ignore_empty) ==
    LET mask == CoreMask(xt, ignore_empty) IN
    [b \in 1..NB(xt) |->
        LET sse == SumSeq([c \in 1..NC(xt) |->
                       SumSeq([p \in 1..NP(xt) |-> CoreSqErr(mask[b][p], xt[b][c][p], xp[b][c][p])])])
            cnt == SumSeq([c \in 1..NC(xt) |->
                       SumSeq([p \in 1..NP(xt) |-> IF mask[b][p] THEN 1 ELSE 0])])
        IN IF ignore_empty THEN Frac(sse, cnt) ELSE Frac(sse, 1)]

\* mask = mask.unsqueeze(1).expand(-1, x_true.shape[1], -1, -1)
\* sse = torch.sum((x_pred*mask - x_true*mask)**2, dim=(1,2,3))
\* sse /= torch.sum(mask, dim=(1,2,3))
CorePerSample(xt, xp, ignore_empty) ==
    LET mask == CoreMask(xt, ignore_empty) IN
    [b \in 1..NB(xt) |->
        LET sse == SumSeq([c \in 1..NC(xt) |->
                       SumSeq([p \in 1..NP(xt) |-> CoreSqErr(mask[b][p], xt[b][c][p], xp[b][c][p])])])
            cnt == SumSeq([c \in 1..NC(xt) |->
                       SumSeq([p \in 1..NP(xt) |-> IF mask[b][p] THEN 1 ELSE 0])])
        IN Frac(sse, cnt)]

\* reconstruction_loss(x_true, x_pred, ignore_empty, per_sample): the
\* per-sample vector, or (as a vector of one) torch.mean of it
CoreReconstructionLoss(xt, xp, ignore_empty, per_sample) ==
    LET sse == CorePerSample(xt, xp, ignore_empty)
    IN IF per_sample THEN sse ELSE <<FMean(sse)>>

(* ================ core_pytorch.py: reconstruction_loss ================ *)

\* sse = torch.sum((x_pred - x_true)**2, dim=(1,2,3))
PtPerSample(xt, xp) ==
    [b \in 1..NB(xt) |->
        Frac(SumSeq([c \in 1..NC(xt) |->
                 SumSeq([p \in 1..NP(xt) |->
                     (xp[b][c][p] - xt[b][c][p]) * (xp[b][c][p] - xt[b][c][p])])]), 1)]

\* reconstruction_loss(x_true, x_pred, per_sample)
PtReconstructionLoss(xt, xp, per_sample) ==
    LET sse == PtPerSample(xt, xp)
    IN IF per_sample THEN sse ELSE <<FMean(sse)>>

(* ====================== SpecRecon: the calls ========================== *)

Pix == 0..MaxPix
\* batch size B, channels C, positions P, each at most MaxDim, of at most
\* MaxCells elements in all
Shapes ==
    {sh \in [B : 1..MaxDim, C : 1..MaxDim, P : 1..MaxDim] :
        sh.B * sh.C * sh.P <= MaxCells}
Tensors(sh) == [1..sh.B -> [1..sh.C -> [1..sh.P -> Pix]]]

CoreReconCall ==
    /\ rl = NoCall
    /\ \E ie \in BOOLEAN, ps \in BOOLEAN :
        rl' = [fn |-> "core", ignore_empty |-> ie, per_sample |-> ps,
               value |-> CoreReconstructionLoss(x_true, x_pred, ie, ps)]
    /\ UNCHANGED <<x_true, x_pred, notRecon>>

PtReconCall ==
    /\ rl = NoCall
    /\ \E ps \in BOOLEAN :
        rl' = [fn |-> "pytorch", ignore_empty |-> FALSE, per_sample |-> ps,
               value |-> PtReconstructionLoss(x_true, x_pred, ps)]
    /\ UNCHANGED <<x_true, x_pred, notRecon>>

InitRecon ==
    /\ TrainIdle
    /\ LatentIdle
    /\ VisIdle
    /\ EvalIdle
    /\ EpochIdle
    /\ \E sh \in Shapes : x_true \in Tensors(sh) /\ x_pred \in Tensors(sh)
    /\ rl = NoCall

NextRecon == CoreReconCall \/ PtReconCall

SpecRecon == InitRecon /\ [][NextRecon]_vars

(* ================= kl_loss and CVAE.reparameterize ==================== *)

\* Floats of the latent functions are held in fixed point: Unit stands for 1.0.
Unit == 1000

\* torch.exp at the half-integers k/2, to three decimals
ExpHalf(k) ==
    CASE k = -4 -> 135
      [] k = -3 -> 223
      [] k = -2 -> 368
      [] k = -1 -> 607
      [] k = 0 -> Unit
      [] k = 1 -> 1649
      [] k = 2 -> 2718
      [] k = 3 -> 4482
      [] k = 4 -> 7389

\* mutant: the constant 1 of the closed form left out
CoreKlTerm_NoOne(m, lv) == Unit * lv - Unit * m * m - ExpHalf(2 * lv)

\* core.py: 1 + logvar - mean.pow(2) - logvar.exp(), at one element
CoreKlTerm(m, lv) == Unit + Unit * lv - Unit * m * m - ExpHalf(2 * lv)

\* core.py: -0.5 * torch.mean(torch.sum(..., dim=1))
CoreKlLoss(mu, lvs) ==
    LET rows == [b \in 1..Len(mu) |->
                    Frac(SumSeq([d \in 1..Len(mu[b]) |-> CoreKlTerm(mu[b][d], lvs[b][d])]), Unit)]
        avg == FMean(rows)
    IN IF avg.den = 0 THEN avg ELSE Frac(0 - avg.num, 2 * avg.den)

\* core_pytorch.py: 1 + logvar - mean.pow(2) - logvar.exp(), at one element
PtKlTerm(m, lv) == Unit + Unit * lv - Unit * m * m - ExpHalf(2 * lv)

\* core_pytorch.py: -0.5 * torch.mean(torch.sum(..., dim=1))
PtKlLoss(mu, lvs) ==
    LET rows == [b \in 1..Len(mu) |->
                    Frac(SumSeq([d \in 1..Len(mu[b]) |-> PtKlTerm(mu[b][d], lvs[b][d])]), Unit)]
        avg == FMean(rows)
    IN IF avg.den = 0 THEN avg ELSE Frac(0 - avg.num, 2 * avg.den)

\* mutant: the mean inside the scaling, (eps + mean) * exp(logvar * .5)
CoreReparamElem_ScaledMean(e, m, lv) == ((e + m) * ExpHalf(lv))

\* core.py: eps * torch.exp(logvar * .5) + mean, at one element
CoreReparamElem(e, m, lv) == e * ExpHalf(lv) + Unit * m

\* core.py: CVAE.reparameterize, given the noise torch.randn_like drew
CoreReparameterize(mu, lvs, eps) ==
    [b \in 1..Len(mu) |-> [d \in 1..Len(mu[b]) |->
        CoreReparamElem(eps[b][d], mu[b][d], lvs[b][d])]]

\* core_pytorch.py: eps * torch.exp(logvar * .5) + mean, at one element
PtReparamElem(e, m, lv) == e * ExpHalf(lv) + Unit * m

\* core_pytorch.py: CVAE.reparameterize, given the noise torch.randn_like drew
PtReparameterize(mu, lvs, eps) ==
    [b \in 1..Len(mu) |-> [d \in 1..Len(mu[b]) |->
        PtReparamElem(eps[b][d], mu[b][d], lvs[b][d])]]

MeanVals == 0..MaxMean
LogvarVals == (0 - MaxLogvar)..MaxLogvar
NoiseVals == 0..MaxEps
\* batch size B and latent dimension D of at most MaxLatent elements in all
LatentShapes == {sh \in [B : 1..MaxLatent, D : 1..MaxLatent] : sh.B * sh.D <= MaxLatent}
Matrices(sh, vals) == [1..sh.B -> [1..sh.D -> vals]]
ShapeOf(mu) == [B |-> Len(mu), D |-> Len(mu[1])]

CoreKlLossCall ==
    /\ lat = NoLatCall
    /\ lat' = [fn |-> "core.kl_loss", eps |-> NoNoise, value |-> <<CoreKlLoss(mean, logvar)>>]
    /\ UNCHANGED <<mean, logvar, notLatent>>

PtKlLossCall ==
    /\ lat = NoLatCall
    /\ lat' = [fn |-> "pytorch.kl_loss", eps |-> NoNoise, value |-> <<PtKlLoss(mean, logvar)>>]
    /\ UNCHANGED <<mean, logvar, notLatent>>

\* eps = torch.randn_like(mean)
CoreReparameterizeCall ==
    /\ lat = NoLatCall
    /\ \E eps \in Matrices(ShapeOf(mean), NoiseVals) :
        lat' = [fn |-> "core.reparameterize", eps |-> eps,
                value |-> CoreReparameterize(mean, logvar, eps)]
    /\ UNCHANGED <<mean, logvar, notLatent>>

PtReparameterizeCall ==
    /\ lat = NoLatCall
    /\ \E eps \in Matrices(ShapeOf(mean), NoiseVals) :
        lat' = [fn |-> "pytorch.reparameterize", eps |-> eps,
                value |-> PtReparameterize(mean, logvar, eps)]
    /\ UNCHANGED <<mean, logvar, notLatent>>

InitLatent ==
    /\ TrainIdle
    /\ ReconIdle
    /\ VisIdle
    /\ EvalIdle
    /\ EpochIdle
    /\ \E sh \in LatentShapes :
        mean \in Matrices(sh, MeanVals) /\ logvar \in Matrices(sh, LogvarVals)
    /\ lat = NoLatCall

NextLatent ==
    \/ CoreKlLossCall
    \/ PtKlLossCall
    \/ CoreReparameterizeCall
    \/ PtReparameterizeCall

SpecLatent == InitLatent /\ [][NextLatent]_vars

(* ============================== vis.py ================================ *)

\* The global generator has MaxRng + 1 states; drawing a number moves it on.
RngStep(r) == (5 * r + 3) % (MaxRng + 1)
\* np.random.seed(seed)
RngSeed(seed) == seed % (MaxRng + 1)

Range(k) == [j \in 1..k |-> j - 1]
Without(s, j) == [k \in 1..(Len(s) - 1) |-> IF k < j THEN s[k] ELSE s[k + 1]]

\* np.random.choice(pool, size=k, replace=False) with the generator in
\* state r: the k elements chosen and the generator's state afterwards
RECURSIVE Choice(_, _, _)
Choice(r, pool, k) ==
    IF k = 0 THEN [rng |-> r, ix |-> <<>>]
    ELSE LET j == (r % Len(pool)) + 1
             rest == Choice(RngStep(r), Without(pool, j), k - 1)
         IN [rng |-> rest.rng, ix |-> <<pool[j]>> \o rest.ix]

\* for p, box in map.items(): c = np.random.choice(box, size=1)[0]
\* boxes: the sizes of the SOM's non-empty cells
RECURSIVE ChooseInBoxes(_, _)
ChooseInBoxes(r, boxes) ==
    IF boxes = <<>> THEN [rng |-> r, ix |-> <<>>]
    ELSE LET rest == ChooseInBoxes(RngStep(r), Tail(boxes))
         IN [rng |-> rest.rng, ix |-> <<r % Head(boxes)>> \o rest.ix]

\* the ways the SOM can spread m samples over at most g non-empty cells
RECURSIVE BoxSizes(_, _)
BoxSizes(m, g) ==
    IF m = 0 THEN {<<>>}
    ELSE IF g = 0 THEN {}
    ELSE UNION {{<<k>> \o rest : rest \in BoxSizes(m - k, g - 1)} : k \in 1..m}

NoSeed == 0 - 1
Seeds == {NoSeed} \cup (0..MaxSeed)
Lens == 1..MaxExamples
Grids == 1..MaxGrid

\* plot_patches_separatechannels(examples, choose)
PlotPatchesSeparateChannels ==
    /\ \E len \in Lens, choose \in {0} \cup Lens :
        LET k == IF choose < len THEN choose ELSE len
            c == Choice(rng, Range(len), k)
        IN IF choose # 0
           THEN rng' = c.rng /\ vis' = [fn |-> "plot_patches_separatechannels", ix |-> c.ix]
           ELSE rng' = rng /\ vis' = [fn |-> "plot_patches_separatechannels", ix |-> Range(len)]
    /\ UNCHANGED notVis

\* plot_patches_overlaychannels(examples, colormaps, nx, ny, show, seed): g = nx*ny
OverlayChannels(r, len, g, seed) ==
    IF g < len
    THEN Choice(IF seed # NoSeed THEN RngSeed(seed) ELSE r, Range(len), g)
    ELSE [rng |-> r, ix |-> Range(len)]

PlotPatchesOverlayChannels ==
    /\ \E len \in Lens, g \in Grids, seed \in Seeds :
        LET c == OverlayChannels(rng, len, g, seed)
        IN rng' = c.rng /\ vis' = [fn |-> "plot_patches_overlaychannels", ix |-> c.ix]
    /\ UNCHANGED notVis

\* plot_patches_overlaychannels_som(examples, latent, colormaps, nx, ny, show,
\* seed, scale_factor, spacing, subsamplefactor): g = nx*ny, sub the size
\* int(subsamplefactor*nx*ny) of the subsample (0: no subsamplefactor)
PlotPatchesOverlayChannelsSom ==
    /\ \E len \in Lens, g \in Grids, seed \in Seeds, sub \in {0} \cup Lens :
        /\ sub <= len
        /\ LET r0 == IF seed # NoSeed THEN RngSeed(seed) ELSE rng
               s == IF sub # 0 THEN Choice(r0, Range(len), sub)
                    ELSE [rng |-> r0, ix |-> Range(len)]
           IN \E boxes \in BoxSizes(Len(s.ix), g) :
                LET c == ChooseInBoxes(s.rng, boxes)
                IN /\ rng' = c.rng
                   /\ vis' = [fn |-> "plot_patches_overlaychannels_som", ix |-> c.ix]
    /\ UNCHANGED notVis

\* plot_patches_fourcolors: plot_patches_overlaychannels(examples, colormaps,
\* nx=nx, ny=ny, show=show), its return value dropped
PlotPatchesFourColors ==
    /\ \E len \in Lens, g \in Grids :
        LET c == OverlayChannels(rng, len, g, NoSeed)
        IN rng' = c.rng /\ vis' = [fn |-> "plot_patches_fourcolors", ix |-> c.ix]
    /\ UNCHANGED notVis

\* plot_with_reconstruction, plot_patches_overlaychannels_sorted, diff_markers
\* and spatialplot draw no random number.
PlotWithReconstruction ==
    /\ vis' = [fn |-> "plot_with_reconstruction", ix |-> <<>>]
    /\ UNCHANGED <<rng, notVis>>

PlotPatchesOverlayChannelsSorted ==
    /\ \E len \in Lens, g \in Grids :
        vis' = [fn |-> "plot_patches_overlaychannels_sorted",
                ix |-> Range(IF g < len THEN g ELSE len)]
    /\ UNCHANGED <<rng, notVis>>

DiffMarkers ==
    /\ vis' = [fn |-> "diff_markers", ix |-> <<>>]
    /\ UNCHANGED <<rng, notVis>>

SpatialPlot ==
    /\ vis' = [fn |-> "spatialplot", ix |-> <<>>]
    /\ UNCHANGED <<rng, notVis>>

InitVis ==
    /\ TrainIdle
    /\ ReconIdle
    /\ LatentIdle
    /\ EvalIdle
    /\ EpochIdle
    /\ rng \in 0..MaxRng
    /\ vis = NoPlot

NextVis ==
    \/ PlotPatchesSeparateChannels
    \/ PlotPatchesOverlayChannels
    \/ PlotPatchesOverlayChannelsSom
    \/ PlotPatchesFourColors
    \/ PlotWithReconstruction
    \/ PlotPatchesOverlayChannelsSorted
    \/ DiffMarkers
    \/ SpatialPlot

SpecVis == InitVis /\ [][NextVis]_vars

(* ============================== evaluate ============================== *)

Min2(a, b) == IF a < b THEN a ELSE b

\* the reconstruction loss a validation sample can have: a number, or nan
\* for a sample with an empty mask (0/0)
SampleLosses == {NaNf} \cup {Frac(k, 1) : k \in 0..MaxLoss}

\* model.encode(x): the posterior mean of sample i, a function of the sample
\* and of the model's weights
PosteriorMean(i, w) == [encode |-> i, weights |-> w]

\* reconstruction_loss(batch, model.decode(mean), ..., per_sample=True) for
\* sample i: what the model, with the weights of the call, gives for the
\* sample decoded from its posterior mean
SampleLoss(s, i) == s.sample_loss[i]

\* evaluate(model, eval_dataset, batch_size, detailed) is called
EvalCalled(fn, n_samples, sample_loss, batch_size, detailed, training) ==
    [fn |-> fn, pc |-> "start", n_samples |-> n_samples,
     sample_loss |-> sample_loss, batch_size |-> batch_size,
     detailed |-> detailed, training |-> training,
     weights |-> 0, weights_at_call |-> 0, randn |-> 0, grad_enabled |-> TRUE,
     eval_loader |-> <<>>, n |-> 0, rlosses |-> <<>>, embeddings |-> <<>>,
     decoded |-> <<>>, result |-> [rlosses |-> <<>>, embeddings |-> <<>>]]

(* ------------------------- core.py: evaluate -------------------------- *)

\* mutant: shuffle=True, the samples visited in another order
CoreEvalLoader_Shuffled(n_samples, batch_size) ==
    [k \in 1..((n_samples + batch_size - 1) \div batch_size) |->
        [j \in 1..Min2(batch_size, n_samples - (k - 1) * batch_size) |->
            n_samples + 1 - ((k - 1) * batch_size + j)]]

\* DataLoader(dataset=eval_dataset, batch_size=batch_size, shuffle=False):
\* batch k holds the samples (k-1)*batch_size + 1 .. k*batch_size by their
\* position in the dataset, the last batch what is left of it.
CoreEvalLoader(n_samples, batch_size) ==
    [k \in 1..((n_samples + batch_size - 1) \div batch_size) |->
        [j \in 1..Min2(batch_size, n_samples - (k - 1) * batch_size) |->
            (k - 1) * batch_size + j]]

\* model.eval(); eval_loader = DataLoader(...); rlosses = []; embeddings = [];
\* with torch.no_grad():
CoreEvalEnter ==
    /\ ev.fn = "core" /\ ev.pc = "start"
    /\ ev' = [ev EXCEPT !.training = FALSE,
                  !.eval_loader = CoreEvalLoader(ev.n_samples, ev.batch_size),
                  !.rlosses = <<>>, !.embeddings = <<>>,
                  !.grad_enabled = FALSE, !.n = 0, !.pc = "loop"]
    /\ UNCHANGED notEval

\* One pass of the loop: mean, _ = model.encode(batch);
\* predictions = model.decode(mean); rlosses.append(reconstruction_loss(...,
\* per_sample=True)); if detailed: embeddings.append(mean)
CoreEvalBatch ==
    /\ ev.fn = "core" /\ ev.pc = "loop" /\ ev.n < Len(ev.eval_loader)
    /\ LET batch == ev.eval_loader[ev.n + 1]
           mean_ == [j \in 1..Len(batch) |-> PosteriorMean(batch[j], ev.weights)]
           losses == [j \in 1..Len(batch) |-> SampleLoss(ev, batch[j])]
       IN ev' = [ev EXCEPT !.decoded = @ \o mean_,
                     !.rlosses = Append(@, losses),
                     !.embeddings = IF ev.detailed THEN Append(@, mean_) ELSE @,
                     !.n = @ + 1]
    /\ UNCHANGED notEval

\* the with block ends; np.concatenate(rlosses) raises ValueError on an
\* empty list; if detailed: return np.concatenate(rlosses),
\* np.concatenate(embeddings) else: return np.concatenate(rlosses).mean()
CoreEvalReturn ==
    /\ ev.fn = "core" /\ ev.pc = "loop" /\ ev.n = Len(ev.eval_loader)
    /\ ev' = IF ev.rlosses = <<>>
             THEN [ev EXCEPT !.grad_enabled = TRUE, !.pc = "raised"]
             ELSE IF ev.detailed
             THEN [ev EXCEPT !.grad_enabled = TRUE, !.pc = "returned",
                       !.result = [rlosses |-> Flatten(ev.rlosses),
                                   embeddings |-> Flatten(ev.embeddings)]]
             ELSE [ev EXCEPT !.grad_enabled = TRUE, !.pc = "returned",
                       !.result = [rlosses |-> <<FMean(Flatten(ev.rlosses))>>,
                                   embeddings |-> <<>>]]
    /\ UNCHANGED notEval

(* ---------------------- core_pytorch.py: evaluate --------------------- *)

\* DataLoader(dataset=eval_dataset, batch_size=batch_size, shuffle=False):
\* batch k holds the samples (k-1)*batch_size + 1 .. k*batch_size by their
\* position in the dataset, the last batch what is left of it.
PtEvalLoader(n_samples, batch_size) ==
    [k \in 1..((n_samples + batch_size - 1) \div batch_size) |->
        [j \in 1..Min2(batch_size, n_samples - (k - 1) * batch_size) |->
            (k - 1) * batch_size + j]]

\* model.eval(); eval_loader = DataLoader(...); rlosses = []; embeddings = [];
\* with torch.no_grad():
PtEvalEnter ==
    /\ ev.fn = "pytorch" /\ ev.pc = "start"
    /\ ev' = [ev EXCEPT !.training = FALSE,
                  !.eval_loader = PtEvalLoader(ev.n_samples, ev.batch_size),
                  !.rlosses = <<>>, !.embeddings = <<>>,
                  !.grad_enabled = FALSE, !.n = 0, !.pc = "loop"]
    /\ UNCHANGED notEval

\* One pass of the loop: batch.permute(0, 3, 1, 2); mean, _ = model.encode(batch);
\* predictions = model.decode(mean); rlosses.append(reconstruction_loss(...,
\* per_sample=True)); if detailed: embeddings.append(mean)
PtEvalBatch ==
    /\ ev.fn = "pytorch" /\ ev.pc = "loop" /\ ev.n < Len(ev.eval_loader)
    /\ LET batch == ev.eval_loader[ev.n + 1]
           mean_ == [j \in 1..Len(batch) |-> PosteriorMean(batch[j], ev.weights)]
           losses == [j \in 1..Len(batch) |-> SampleLoss(ev, batch[j])]
       IN ev' = [ev EXCEPT !.decoded = @ \o mean_,
                     !.rlosses = Append(@, losses),
                     !.embeddings = IF ev.detailed THEN Append(@, mean_) ELSE @,
                     !.n = @ + 1]
    /\ UNCHANGED notEval

\* the with block ends; np.concatenate(rlosses) raises ValueError on an
\* empty list; if detailed: return np.concatenate(rlosses),
\* np.concatenate(embeddings) else: return np.concatenate(rlosses).mean()
PtEvalReturn ==
    /\ ev.fn = "pytorch" /\ ev.pc = "loop" /\ ev.n = Len(ev.eval_loader)
    /\ ev' = IF ev.rlosses = <<>>
             THEN [ev EXCEPT !.grad_enabled = TRUE, !.pc = "raised"]
             ELSE IF ev.detailed
             THEN [ev EXCEPT !.grad_enabled = TRUE, !.pc = "returned",
                       !.result = [rlosses |-> Flatten(ev.rlosses),
                                   embeddings |-> Flatten(ev.embeddings)]]
             ELSE [ev EXCEPT !.grad_enabled = TRUE, !.pc = "returned",
                       !.result = [rlosses |-> <<FMean(Flatten(ev.rlosses))>>,
                                   embeddings |-> <<>>]]
    /\ UNCHANGED notEval

InitEval ==
    /\ TrainIdle
    /\ ReconIdle
    /\ LatentIdle
    /\ VisIdle
    /\ EpochIdle
    /\ \E fn \in {"core", "pytorch"}, n_samples \in 0..MaxSamples,
          batch_size \in 1..MaxBatchSize, detailed \in BOOLEAN,
          training \in BOOLEAN :
        \E sample_loss \in [1..n_samples -> SampleLosses] :
            ev = EvalCalled(fn, n_samples, sample_loss, batch_size, detailed, training)

NextEval ==
    \/ CoreEvalEnter
    \/ CoreEvalBatch
    \/ CoreEvalReturn
    \/ PtEvalEnter
    \/ PtEvalBatch
    \/ PtEvalReturn

SpecEval == InitEval /\ [][NextEval]_vars

(* =========================== train_one_epoch ========================== *)

Max2(a, b) == IF a > b THEN a ELSE b

\* np.mean of a list of floats
NpMean(list) == FDivInt(Frac(SumSeq(list), 1), Len(list))

\* train_one_epoch(model, train_dataset, optimizer, scheduler, batch_size,
\* log_interval, kl_weight) is called, on a loader of len_loader batches
EpochCalled(fn, len_loader, log_interval, training) ==
    [fn |-> fn, pc |-> "start", n_batches |-> len_loader,
     log_interval |-> log_interval, training |-> training,
     steps |-> 0, n |-> 0, rloss |-> 0, vaeloss |-> 0, loss |-> 0,
     losses |-> <<>>, rlosses |-> <<>>, vaelosses |-> <<>>,
     logs |-> <<>>, result |-> <<>>]

(* ---------------------- core.py: train_one_epoch ---------------------- *)

\* mutant: the log line averages every loss recorded so far
CoreRecent_All(list, log_interval) == list

\* if n % log_interval == 0 and n > 0
CoreLogTest(n, log_interval) == n % log_interval = 0 /\ n > 0

\* rlosses[-log_interval:]: the last log_interval elements of the list, or
\* all of it when it is shorter
CoreRecent(list, log_interval) ==
    SubSeq(list, Max2(1, Len(list) - log_interval + 1), Len(list))

\* per_batch_logging(model, n, rlosses, vaelosses, kl_weight, log_interval, scheduler): cur_rloss = np.mean(rlosses[-log_interval:]);
\* cur_vaeloss = np.mean(vaelosses[-log_interval:]); print(...)
CorePerBatchLogging(s) ==
    [batch_num |-> s.n,
     rwindow |-> CoreRecent(s.rlosses, s.log_interval),
     vwindow |-> CoreRecent(s.vaelosses, s.log_interval),
     cur_rloss |-> NpMean(CoreRecent(s.rlosses, s.log_interval)),
     cur_vaeloss |-> NpMean(CoreRecent(s.vaelosses, s.log_interval)),
     steps |-> s.steps,
     recorded |-> <<Len(s.losses), Len(s.rlosses), Len(s.vaelosses)>>]

\* model.train(); train_loader = DataLoader(..., shuffle=True, ...);
\* losses = []; vaelosses = []; rlosses = []
CoreEpochEnter ==
    /\ ep.fn = "core" /\ ep.pc = "start"
    /\ ep' = [ep EXCEPT !.training = TRUE, !.losses = <<>>, !.vaelosses = <<>>,
                  !.rlosses = <<>>, !.n = 0, !.pc = "for"]
    /\ UNCHANGED notEpoch

\* for n, batch in enumerate(train_loader): the forward pass gives rloss
\* and vaeloss, loss = vaeloss + rloss; the backward pass ends with
\* optimizer.step()
CoreEpochStep ==
    /\ ep.fn = "core" /\ ep.pc = "for" /\ ep.n < ep.n_batches
    /\ \E r \in 0..MaxLoss, v \in 0..MaxLoss :
        ep' = [ep EXCEPT !.rloss = r, !.vaeloss = v, !.loss = v + r,
                   !.steps = @ + 1, !.pc = "save"]
    /\ UNCHANGED notEpoch

\* losses.append(float(loss)); rlosses.append(float(rloss));
\* vaelosses.append(float(vaeloss))
CoreEpochSave ==
    /\ ep.fn = "core" /\ ep.pc = "save"
    /\ ep' = [ep EXCEPT !.losses = Append(@, ep.loss),
                  !.rlosses = Append(@, ep.rloss),
                  !.vaelosses = Append(@, ep.vaeloss),
                  !.pc = "log"]
    /\ UNCHANGED notEpoch

\* if n % log_interval == 0 and n > 0: per_batch_logging(...); then the
\* next batch
CoreEpochLog ==
    /\ ep.fn = "core" /\ ep.pc = "log"
    /\ ep' = [ep EXCEPT
                  !.logs = IF CoreLogTest(ep.n, ep.log_interval)
                           THEN Append(@, CorePerBatchLogging(ep)) ELSE @,
                  !.n = @ + 1, !.pc = "for"]
    /\ UNCHANGED notEpoch

\* return pd.DataFrame({'loss':losses, 'rloss':rlosses, 'vaeloss':vaelosses,
\* 'kl_weight':kl_weight})
CoreEpochReturn ==
    /\ ep.fn = "core" /\ ep.pc = "for" /\ ep.n = ep.n_batches
    /\ ep' = [ep EXCEPT
                  !.result = [k \in 1..Len(ep.losses) |->
                                 [loss |-> ep.losses[k], rloss |-> ep.rlosses[k],
                                  vaeloss |-> ep.vaelosses[k]]],
                  !.pc = "returned"]
    /\ UNCHANGED notEpoch

(* ------------------- core_pytorch.py: train_one_epoch ----------------- *)

\* if n % log_interval == 0 and n > 0
PtLogTest(n, log_interval) == n % log_interval = 0 /\ n > 0

\* rlosses[-log_interval:]: the last log_interval elements of the list, or
\* all of it when it is shorter
PtRecent(list, log_interval) ==
    SubSeq(list, Max2(1, Len(list) - log_interval + 1), Len(list))

\* per_batch_logging(n, rlosses, vaelosses, kl_weight, log_interval, scheduler): cur_rloss = np.mean(rlosses[-log_interval:]);
\* cur_vaeloss = np.mean(vaelosses[-log_interval:]); print(...)
PtPerBatchLogging(s) ==
    [batch_num |-> s.n,
     rwindow |-> PtRecent(s.rlosses, s.log_interval),
     vwindow |-> PtRecent(s.vaelosses, s.log_interval),
     cur_rloss |-> NpMean(PtRecent(s.rlosses, s.log_interval)),
     cur_vaeloss |-> NpMean(PtRecent(s.vaelosses, s.log_interval)),
     steps |-> s.steps,
     recorded |-> <<Len(s.losses), Len(s.rlosses), Len(s.vaelosses)>>]

\* model.train(); train_loader = DataLoader(..., shuffle=True, ...);
\* losses = []; vaelosses = []; rlosses = []
PtEpochEnter ==
    /\ ep.fn = "pytorch" /\ ep.pc = "start"
    /\ ep' = [ep EXCEPT !.training = TRUE, !.losses = <<>>, !.vaelosses = <<>>,
                  !.rlosses = <<>>, !.n = 0, !.pc = "for"]
    /\ UNCHANGED notEpoch

\* for n, batch in enumerate(train_loader): batch.permute(0, 3, 1, 2); the forward pass gives rloss
\* and vaeloss, loss = vaeloss + rloss; the backward pass ends with
\* optimizer.step()
PtEpochStep ==
    /\ ep.fn = "pytorch" /\ ep.pc = "for" /\ ep.n < ep.n_batches
    /\ \E r \in 0..MaxLoss, v \in 0..MaxLoss :
        ep' = [ep EXCEPT !.rloss = r, !.vaeloss = v, !.loss = v + r,
                   !.steps = @ + 1, !.pc = "save"]
    /\ UNCHANGED notEpoch

\* losses.append(float(loss)); rlosses.append(float(rloss));
\* vaelosses.append(float(vaeloss))
PtEpochSave ==
    /\ ep.fn = "pytorch" /\ ep.pc = "save"
    /\ ep' = [ep EXCEPT !.losses = Append(@, ep.loss),
                  !.rlosses = Append(@, ep.rloss),
                  !.vaelosses = Append(@, ep.vaeloss),
                  !.pc = "log"]
    /\ UNCHANGED notEpoch

\* if n % log_interval == 0 and n > 0: per_batch_logging(...); then the
\* next batch
PtEpochLog ==
    /\ ep.fn = "pytorch" /\ ep.pc = "log"
    /\ ep' = [ep EXCEPT
                  !.logs = IF PtLogTest(ep.n, ep.log_interval)
                           THEN Append(@, PtPerBatchLogging(ep)) ELSE @,
                  !.n = @ + 1, !.pc = "for"]
    /\ UNCHANGED notEpoch

\* return pd.DataFrame({'loss':losses, 'rloss':rlosses, 'vaeloss':vaelosses,
\* 'kl_weight':kl_weight})
PtEpochReturn ==
    /\ ep.fn = "pytorch" /\ ep.pc = "for" /\ ep.n = ep.n_batches
    /\ ep' = [ep EXCEPT
                  !.result = [k \in 1..Len(ep.losses) |->
                                 [loss |-> ep.losses[k], rloss |-> ep.rlosses[k],
                                  vaeloss |-> ep.vaelosses[k]]],
                  !.pc = "returned"]
    /\ UNCHANGED notEpoch

\* The loader has at least one batch: it is built with shuffle=True, and
\* the RandomSampler behind it rejects a dataset without samples.
InitEpoch ==
    /\ TrainIdle
    /\ ReconIdle
    /\ LatentIdle
    /\ VisIdle
    /\ EvalIdle
    /\ \E fn \in {"core", "pytorch"}, len_loader \in 1..MaxLoaderLen,
          log_interval \in 1..MaxInterval, training \in BOOLEAN :
        ep = EpochCalled(fn, len_loader, log_interval, training)

NextEpoch ==
    \/ CoreEpochEnter
    \/ CoreEpochStep
    \/ CoreEpochSave
    \/ CoreEpochLog
    \/ CoreEpochReturn
    \/ PtEpochEnter
    \/ PtEpochStep
    \/ PtEpochSave
    \/ PtEpochLog
    \/ PtEpochReturn

SpecEpoch == InitEpoch /\ [][NextEpoch]_vars

(* ============================ specification =========================== *)

Init ==
    /\ core = Called
    /\ pytorch = Called
    /\ n_epochs \in 0..MaxEpochs
    /\ n_batches \in LoaderLens
    /\ val_input = <<>>
    /\ fault = NoFault
    /\ turn = "core"
    /\ ReconIdle
    /\ LatentIdle
    /\ VisIdle
    /\ EvalIdle
    /\ EpochIdle

Next == CoreNext \/ PtNext

Spec == Init /\ [][Next]_vars

(* ======================= full_training: claims ======================== *)

Runs == {core, pytorch}
Returned(s) == s.pc = "returned"

\* the calls of the driver itself, without those of train_one_epoch's loop
DriverOps ==
    {"train_one_epoch", "evaluate", "scheduler.step", "write_val",
     "per_epoch_logging", "torch.save", "load_state_dict"}
IsDriverOp(e) == e.op \in DriverOps
Driver(s) == SelectSeq(s.trace, IsDriverOp)
Count(seq, op, e) == Cardinality({k \in 1..Len(seq) : seq[k].op = op /\ seq[k].epoch = e})

\* epoch e's validation loss is below that of every earlier epoch and below
\* the initial float('inf')
ImprovedAt(e) ==
    /\ val_input[e] # NaN /\ val_input[e] < Inf
    /\ \A d \in 1..(e - 1) : val_input[d] # NaN => val_input[e] < val_input[d]

\* C1: when full_training returns, the model holds the weights that were
\* evaluated in some epoch, and no epoch's validation loss is below the
\* validation loss of that epoch.
C1_ReturnsBest ==
    \A s \in Runs : Returned(s) =>
        \E k \in 1..Len(s.trace) :
            /\ s.trace[k].op = "evaluate"
            /\ s.trace[k].arg = s.weights
            /\ \A e \in 1..Len(val_input) :
                ~FLess(val_input[e], val_input[s.trace[k].epoch])

\* three epochs ran, and the weights returned are those of the second
C1_Witness ==
    /\ Returned(core) /\ Returned(pytorch)
    /\ n_epochs = 3 /\ n_batches >= 2
    /\ core.weights = 2 * n_batches
    /\ pytorch.weights = 2 * n_batches

\* C2: the loss trace full_training returns has one row per mini-batch, in
\* processing order (n_epochs * batches per epoch), and its val_rloss cell
\* holds the epoch's validation loss in the last row of each epoch's
\* segment and NaN in every other row.
C2_LossTrace ==
    \A s \in Runs : Returned(s) =>
        /\ Len(s.losslogs_sofar) = n_epochs * n_batches
        /\ \A k \in 1..Len(s.losslogs_sofar) :
            LET row == s.losslogs_sofar[k]
                e == ((k - 1) \div n_batches) + 1
                b == (k - 1) % n_batches
            IN /\ row.epoch = e
               /\ row.n = b
               /\ row.val_rloss = IF b = n_batches - 1 THEN val_input[e] ELSE NaN

\* a returned trace of several epochs of several batches, whose validation
\* losses are numbers
C2_Witness ==
    /\ Returned(core) /\ Returned(pytorch)
    /\ n_epochs >= 2 /\ n_batches >= 2
    /\ \A e \in 1..n_epochs : val_input[e] \in 0..MaxLoss
    /\ Len(core.losslogs_sofar) = n_epochs * n_batches

\* C3: the scratch directory exists from the start of full_training's with
\* block until the run leaves it, and no longer exists once full_training
\* has exited, by return or by an error.
C3_TempdirRemoved ==
    \A s \in Runs :
        /\ Exited(s) => s.tempdir = "removed"
        /\ (~Exited(s) /\ s.pc # "start") => s.tempdir = "exists"
        /\ s.pc = "start" => s.tempdir = "none"

\* the checkpoint save failed in the second epoch, in both runs
C3_Witness ==
    /\ core.pc = "raised" /\ pytorch.pc = "raised"
    /\ fault.pc = "check" /\ fault.epoch = 2
    /\ core.ckpt # <<>>

\* C4: in every epoch the driver trains, evaluates, steps the scheduler,
\* writes the validation loss into the last row, calls the per-epoch
\* callback with the history so far, and only then saves, and saves only
\* when the loss improved; the scheduler is stepped once and the callback
\* called once per epoch.
C4_EpochOrder ==
    \A s \in Runs :
        LET D == Driver(s) IN
        /\ D # <<>> => D[1] = Ev("train_one_epoch", 1, 0)
        /\ \A k \in 1..(Len(D) - 1) :
            LET a == D[k]
                b == D[k + 1]
            IN /\ a.op = "train_one_epoch" => b.op = "evaluate" /\ b.epoch = a.epoch
               /\ a.op = "evaluate" => b.op = "scheduler.step" /\ b.epoch = a.epoch
               /\ a.op = "scheduler.step" => b.op = "write_val" /\ b.epoch = a.epoch
               /\ a.op = "write_val" =>
                    /\ b.op = "per_epoch_logging" /\ b.epoch = a.epoch
                    /\ b.arg = a.epoch * n_batches
               /\ a.op = "per_epoch_logging" =>
                    IF ImprovedAt(a.epoch)
                    THEN b.op = "torch.save" /\ b.epoch = a.epoch
                    ELSE \/ b.op = "train_one_epoch" /\ b.epoch = a.epoch + 1
                         \/ b.op = "load_state_dict"
               /\ a.op = "torch.save" =>
                    \/ b.op = "train_one_epoch" /\ b.epoch = a.epoch + 1
                    \/ b.op = "load_state_dict"
               /\ a.op # "load_state_dict"
        /\ \A e \in 1..n_epochs :
            LET done == \/ e < s.epoch
                        \/ e = s.epoch /\ s.pc \in {"check", "for", "reload", "exit", "returned"}
            IN /\ Count(D, "scheduler.step", e) <= 1
               /\ Count(D, "per_epoch_logging", e) <= 1
               /\ done => Count(D, "scheduler.step", e) = 1
               /\ done => Count(D, "per_epoch_logging", e) = 1
        /\ s.lr_steps = Cardinality({k \in 1..Len(D) : D[k].op = "scheduler.step"})

\* three epochs ran to the end: the first and the third saved a checkpoint,
\* the second did not
C4_Witness ==
    /\ Returned(core) /\ Returned(pytorch)
    /\ n_epochs = 3 /\ n_batches >= 1
    /\ ImprovedAt(1) /\ ~ImprovedAt(2) /\ ImprovedAt(3)
    /\ Count(Driver(core), "torch.save", 3) = 1
    /\ Count(Driver(core), "torch.save", 2) = 0

\* C10: run on the same batches, epoch count, losses and fault, the two
\* implementations make the same calls in the same order (train, optimizer
\* steps, per-batch logging, evaluate, scheduler step, callback, save,
\* reload) and leave full_training the same way.
C10_SameControl ==
    /\ \A k \in 1..Len(core.trace) :
        k <= Len(pytorch.trace) => core.trace[k] = pytorch.trace[k]
    /\ (Exited(core) /\ Exited(pytorch)) =>
        /\ core.pc = pytorch.pc
        /\ core.trace = pytorch.trace
        /\ core.weights = pytorch.weights
        /\ core.lr_steps = pytorch.lr_steps
        /\ core.losslogs_sofar = pytorch.losslogs_sofar

\* both returned after epochs long enough for the per-batch log line
C10_Witness ==
    /\ Returned(core) /\ Returned(pytorch)
    /\ n_epochs >= 2 /\ n_batches > DefaultLogInterval
    /\ \E k \in 1..Len(pytorch.trace) : pytorch.trace[k].op = "per_batch_logging"

\* C13: whenever a run of full_training stands at its final reload of the
\* best weights, some epoch has written the checkpoint file, for every
\* number of epochs and every sequence of validation losses.
C13_ReloadFindsCheckpoint ==
    \A s \in Runs : s.pc = "reload" => s.ckpt # <<>>

(* ===================== reconstruction_loss: claims ==================== *)

\* x with element [b][c][p] set to v
Put(x, b, c, p, v) == [x EXCEPT ![b][c][p] = v]

\* C5: with masking, the loss does not change when a predicted pixel, or a
\* true pixel of a channel other than the mask channel, is changed at a
\* position where the mask channel of x_true is zero.
C5_MaskInvariance ==
    (rl.fn = "core" /\ rl.ignore_empty) =>
        \A b \in 1..NB(x_true), c \in 1..NC(x_true), p \in 1..NP(x_true), v \in Pix :
            x_true[b][NC(x_true)][p] = 0 =>
                /\ CoreReconstructionLoss(x_true, Put(x_pred, b, c, p, v), TRUE, rl.per_sample)
                        = rl.value
                /\ c # NC(x_true) =>
                    CoreReconstructionLoss(Put(x_true, b, c, p, v), x_pred, TRUE, rl.per_sample)
                        = rl.value

\* a masked loss of a sample with a valid and an empty position, whose
\* prediction is wrong at the empty position
C5_Witness ==
    /\ rl.fn = "core" /\ rl.ignore_empty /\ rl.per_sample
    /\ NC(x_true) = 2 /\ NP(x_true) = 2
    /\ x_true[1][2][1] # 0 /\ x_true[1][2][2] = 0
    /\ x_pred[1][1][2] # x_true[1][1][2]
    /\ rl.value[1] = Frac(0, 1)

\* the sum of squared errors of sample b over all channels and positions
SumSqErr(b) ==
    SumSeq([c \in 1..NC(x_true) |->
        SumSeq([p \in 1..NP(x_true) |->
            (x_pred[b][c][p] - x_true[b][c][p]) * (x_pred[b][c][p] - x_true[b][c][p])])])
Unmasked == rl.fn = "pytorch" \/ (rl.fn = "core" /\ ~rl.ignore_empty)

\* C6 as claimed: with no masking, in both implementations the per-sample
\* loss is the sum of squared errors, and the other result their batch mean.
C6_SumInBoth ==
    Unmasked =>
        LET sums == [b \in 1..NB(x_true) |-> Frac(SumSqErr(b), 1)]
        IN rl.value = IF rl.per_sample THEN sums ELSE <<FMean(sums)>>

\* C6 as amended: with no masking, core_pytorch.py's per-sample loss is the
\* sum of squared errors, core.py's is that sum divided by the number of
\* elements of the sample (channels * positions), and in both the other
\* result is the batch mean of the per-sample values.
C6_SumOrMean ==
    Unmasked =>
        LET elems == NC(x_true) * NP(x_true)
            per == [b \in 1..NB(x_true) |->
                      IF rl.fn = "core" THEN Frac(SumSqErr(b), elems)
                      ELSE Frac(SumSqErr(b), 1)]
        IN rl.value = IF rl.per_sample THEN per ELSE <<FMean(per)>>

\* core.py's unmasked loss of a sample of two elements, both wrong by one:
\* 1, not 2
C6_Witness ==
    /\ rl.fn = "core" /\ ~rl.ignore_empty /\ rl.per_sample
    /\ NB(x_true) = 1 /\ NC(x_true) * NP(x_true) = 2
    /\ SumSqErr(1) = 2
    /\ rl.value[1] = Frac(1, 1)

(* ================ kl_loss and reparameterize: claims ================== *)

AllZero(mx) == \A b \in 1..Len(mx) : \A d \in 1..Len(mx[b]) : mx[b][d] = 0

\* C7: kl_loss is zero when every mean and every logvar is zero, whatever
\* the batch size and the latent dimension.
C7_KlZero ==
    (lat.fn \in {"core.kl_loss", "pytorch.kl_loss"} /\ AllZero(mean) /\ AllZero(logvar))
        => lat.value = <<Frac(0, 1)>>

\* kl_loss was applied to a batch of two samples, all zero
C7_Witness ==
    /\ lat.fn = "core.kl_loss"
    /\ Len(mean) = 2 /\ AllZero(mean) /\ AllZero(logvar)
    /\ lat.value = <<Frac(0, 1)>>

\* C8: reparameterize whose sampled noise is zero returns the input mean,
\* whatever the mean and the logvar.
C8_ZeroNoiseIsMean ==
    (lat.fn \in {"core.reparameterize", "pytorch.reparameterize"} /\ AllZero(lat.eps))
        => \A b \in 1..Len(mean) : \A d \in 1..Len(mean[b]) :
                lat.value[b][d] = Unit * mean[b][d]

\* reparameterize drew zero noise for a nonzero mean and a nonzero logvar
C8_Witness ==
    /\ lat.fn = "core.reparameterize" /\ AllZero(lat.eps)
    /\ mean[1][1] # 0 /\ logvar[1][1] # 0
    /\ lat.value[1][1] = Unit * mean[1][1]

(* ============================ vis.py: claims ========================== *)

\* C9: no call of a vis.py function changes the state of the global random
\* generator, which later calls read to choose the patches they plot.
C9_NoStateRetained == [][rng' = rng]_vars

(* =========================== evaluate: claims ========================= *)

\* C11: a call of evaluate never changes the model's weights and never
\* samples noise; the codes it decodes are the posterior means of the
\* validation samples, in dataset order; and when it returns, with
\* detailed it returns the reconstruction loss and the posterior mean of
\* every sample, in dataset order (as many as the dataset has samples),
\* and otherwise the mean of the per-sample losses.
C11_EvaluateFrame ==
    ev.fn # "none" =>
        /\ ev.weights = ev.weights_at_call
        /\ ev.randn = 0
        /\ Len(ev.decoded) <= ev.n_samples
        /\ \A i \in 1..Len(ev.decoded) :
            ev.decoded[i] = PosteriorMean(i, ev.weights_at_call)
        /\ ev.pc = "returned" =>
            /\ Len(ev.decoded) = ev.n_samples
            /\ IF ev.detailed
               THEN /\ Len(ev.result.rlosses) = ev.n_samples
                    /\ Len(ev.result.embeddings) = ev.n_samples
                    /\ \A i \in 1..ev.n_samples :
                        /\ ev.result.rlosses[i] = ev.sample_loss[i]
                        /\ ev.result.embeddings[i] =
                               PosteriorMean(i, ev.weights_at_call)
               ELSE ev.result.rlosses =
                        <<FDivInt(FSumSeq(ev.sample_loss), ev.n_samples)>>

\* a detailed evaluation by core.py has returned, of three samples with
\* different losses, visited in a batch of two and a batch of one
C11_Witness ==
    /\ ev.fn = "core" /\ ev.pc = "returned" /\ ev.detailed
    /\ ev.n_samples = 3 /\ ev.batch_size = 2
    /\ ev.sample_loss[1] # ev.sample_loss[2]
    /\ ev.sample_loss[2] # ev.sample_loss[3]
    /\ Len(ev.result.rlosses) = 3

(* ======================= train_one_epoch: claims ====================== *)

\* the batch indices whose log test has run and at which a log line is due
LogDue == {k \in 1..(ep.n - 1) : k % ep.log_interval = 0}

\* C12: in train_one_epoch the calls of per_batch_logging made so far are,
\* in order and once each, those for the batch indices n > 0 divisible by
\* log_interval among the batches whose log test has run; each call comes
\* after the optimizer step of its batch and after the batch's three losses
\* were recorded, and averages the log_interval most recent recorded losses;
\* an epoch of N >= 1 batches that has returned made floor((N-1)/log_interval)
\* calls.
C12_LoggingSchedule ==
    ep.fn # "none" =>
        /\ Len(ep.logs) = Cardinality(LogDue)
        /\ \A i \in 1..Len(ep.logs) :
            LET call == ep.logs[i]
                bn == call.batch_num
                first == bn + 2 - ep.log_interval
            IN /\ bn = i * ep.log_interval
               /\ bn \in LogDue
               /\ call.steps = bn + 1
               /\ call.recorded = <<bn + 1, bn + 1, bn + 1>>
               /\ call.rwindow = [k \in 1..ep.log_interval |-> ep.rlosses[first + k - 1]]
               /\ call.vwindow = [k \in 1..ep.log_interval |-> ep.vaelosses[first + k - 1]]
               /\ call.cur_rloss =
                      Frac(SumSeq(call.rwindow), ep.log_interval)
               /\ call.cur_vaeloss =
                      Frac(SumSeq(call.vwindow), ep.log_interval)
        /\ ep.pc = "returned" =>
            Len(ep.logs) = (ep.n_batches - 1) \div ep.log_interval

\* an epoch of core.py has returned that logged at batch 2 only, with
\* log_interval 2, and the loss of batch 0 differs from those averaged
C12_Witness ==
    /\ ep.fn = "core" /\ ep.pc = "returned"
    /\ ep.log_interval = 2 /\ ep.n_batches >= 3
    /\ Len(ep.logs) >= 1
    /\ ep.logs[1].batch_num = 2
    /\ ep.rlosses[1] # ep.rlosses[2] /\ ep.rlosses[1] # ep.rlosses[3]

====
